---- MODULE Spec2Model ----
(***************************************************************************)
(* Model of the grid-strategy signal engine (package gridmanager) of       *)
(* ninetyfive, of the loop of main that drives it, and of the transaction  *)
(* monitor (Jupiter.MonitorTx) that the loop starts.                       *)
(*                                                                         *)
(* float64 quantities are modelled as exact rationals <<n, d>> (d > 0, in  *)
(* lowest terms).  Prices are positive integers.  All configurations and   *)
(* price sets used below keep every intermediate value a dyadic or small   *)
(* rational, so the comparisons made by the code are decided exactly.      *)
(***************************************************************************)
EXTENDS Integers, Sequences, FiniteSets, TLC

(* ----------------------------- bounds ---------------------------------- *)
MaxPrice == 2
MaxSamples == 6
MaxLadderGrids == 102

(* ------------------------- program constants --------------------------- *)
DirUp == 1
DirNeutral == 0
DirDown == 0 - 1
RsiTypeClassic == 0
RsiTypeRSX == 1

BuySignal == "BUY"
SellSignal == "SELL"
DoNothingSignal == "DO_NOTHING"
\* zero value of common.Signal (var outSignal common.Signal)
NoSignal == ""
\* the nil error
Nil == "nil"

(* --------------------------- float64 values ---------------------------- *)
Abs(x) == IF x < 0 THEN 0 - x ELSE x

RECURSIVE GCD(_, _)
GCD(a, b) == IF b = 0 THEN a ELSE GCD(b, a % b)

\* the rational n/d in lowest terms with a positive denominator
RMk(n, d) ==
    LET g == GCD(Abs(n), Abs(d))
        s == IF d < 0 THEN 0 - 1 ELSE 1
    IN  <<(s * n) \div g, (s * d) \div g>>

R(n) == <<n, 1>>
RNeg(a) == <<0 - a[1], a[2]>>
RAbs(a) == <<Abs(a[1]), a[2]>>

RAdd(a, b) ==
    LET g == GCD(a[2], b[2])
        l == (a[2] \div g) * b[2]
    IN  RMk(a[1] * (l \div a[2]) + b[1] * (l \div b[2]), l)

RSub(a, b) == RAdd(a, RNeg(b))

RMul(a, b) ==
    LET g1 == GCD(Abs(a[1]), b[2])
        g2 == GCD(Abs(b[1]), a[2])
        h1 == IF g1 = 0 THEN 1 ELSE g1
        h2 == IF g2 = 0 THEN 1 ELSE g2
    IN  RMk((a[1] \div h1) * (b[1] \div h2), (a[2] \div h2) * (b[2] \div h1))

\* a / b for b # 0
RDiv(a, b) == RMul(a, IF b[1] < 0 THEN <<0 - b[2], 0 - b[1]>> ELSE <<b[2], b[1]>>)

RLt(a, b) == a[1] * b[2] < b[1] * a[2]
RLe(a, b) == a[1] * b[2] <= b[1] * a[2]
RGt(a, b) == RLt(b, a)
RGe(a, b) == RLe(b, a)
REq(a, b) == a[1] * b[2] = b[1] * a[2]

\* variant: the value is passed through
clampNone(v, min, max) == v

\* clamp bounds a value between min and max
clamp(v, min, max) ==
    IF RLt(v, min) THEN min
    ELSE IF RGt(v, max) THEN max
    ELSE v

(* ----------------------------- state ----------------------------------- *)
VARIABLES
    gm,      \* the GridManager
    phase,   \* "alloc": fields set, ladder not built; "ready": constructed
    calls,   \* number of Process calls made so far
    obs,     \* what the last Process call did and returned
    args,    \* the arguments NewGridManager was called with
    main,    \* the driving loop of main: its position and local variables
    monitors \* the MonitorTx goroutines started so far

vars == <<gm, phase, calls, obs, args, main, monitors>>

(* ----------------------------- GridLadder ------------------------------ *)
\* the loop of initGridLines: gridLines[i] = step * i for i = 0 .. n-1
EvenLines(n) == [k \in 1..n |-> RMul(RMk(100, n - 1), R(k - 1))]

\* initGridLines constructs the array of grid values
initGridLines(g) ==
    IF g.NumberOfGrids < 2
    THEN [g EXCEPT !.gridLines = [k \in 1..g.NumberOfGrids |-> R(50)]]
    ELSE [g EXCEPT !.gridLines =
             [[EvenLines(g.NumberOfGrids) EXCEPT ![1] = R(1)]
                 EXCEPT ![g.NumberOfGrids] = R(99)]]

\* getGridValue safely fetches a grid line
getGridValue(g, idx) ==
    IF idx < 0 \/ idx >= Len(g.gridLines) THEN R(0) ELSE g.gridLines[idx + 1]

(* ---------------------------- construction ----------------------------- *)
\* NewGridManager up to (not including) the call of initGridLines
AllocGridManager(rsiLength, numberOfGrids, direction, ntZone, aggLevel, rsiType) ==
    [ RsiLength |-> rsiLength,
      NumberOfGrids |-> numberOfGrids + 1,
      MarketDirection |-> direction,
      NoTradeZonePips |-> ntZone,
      AggressionLevel |-> aggLevel,
      CurrentRsiType |-> rsiType,
      lastRsiValue |-> R(0),
      currentRsi |-> R(0),
      lastSignal |-> 0,
      lastSignalIndex |-> 0,
      signalLine |-> R(50),
      avgGain |-> R(0),
      avgLoss |-> R(0),
      prevRawPrice |-> 0,
      f8 |-> 0, f10 |-> 0,
      f28 |-> R(0), f30 |-> R(0), f38 |-> R(0), f40 |-> R(0),
      f48 |-> R(0), f50 |-> R(0), f58 |-> R(0), f60 |-> R(0),
      f68 |-> R(0), f70 |-> R(0), f78 |-> R(0), f80 |-> R(0),
      f88 |-> 0, f90 |-> 0, f90_ |-> 0, f0 |-> 0,
      gridLines |-> <<>>,
      buy |-> FALSE,
      sell |-> FALSE ]

NewGridManager(rsiLength, numberOfGrids, direction, ntZone, aggLevel, rsiType) ==
    initGridLines(AllocGridManager(rsiLength, numberOfGrids, direction, ntZone,
                                   aggLevel, rsiType))

\* parseDirection converts a direction string into an integer
parseDirection(dir) ==
    IF dir = "up" THEN DirUp
    ELSE IF dir = "down" THEN DirDown
    ELSE DirNeutral

\* parseNoTradeZone converts the string representation into half-range integers
parseNoTradeZone(nt) ==
    IF nt = "45-55" THEN 5
    ELSE IF nt = "40-60" THEN 10
    ELSE IF nt = "35-65" THEN 15
    ELSE IF nt = "30-70" THEN 20
    ELSE 0

\* parseAggression converts "low", "med", "high" into 0, 1, 2
parseAggression(agg) ==
    IF agg = "med" THEN 1
    ELSE IF agg = "high" THEN 2
    ELSE 0

\* parseRsiType: "rsx" is 1, everything else 0
parseRsiType(t) == IF t = "rsx" THEN RsiTypeRSX ELSE RsiTypeClassic

\* initGridLines panics: make with a negative length, or the store to
\* gridLines[0] of an empty slice
initGridLinesPanics(numberOfGrids) == numberOfGrids + 1 < 1

\* NewGridManager as main calls it, with the textual inputs
NewGridManagerOf(a) ==
    NewGridManager(a.rsiLength, a.numberOfGrids, parseDirection(a.direction),
                   parseNoTradeZone(a.ntZone), parseAggression(a.aggLevel),
                   parseRsiType(a.rsiType))

(* --------------------------- IndicatorEngine --------------------------- *)
\* variant: a zero average loss yields 100 only if the average gain is not
\* zero, and the neutral 50 otherwise
computeRSINeutralFlat(g, price) ==
    IF g.prevRawPrice = 0
    THEN [gm |-> [g EXCEPT !.prevRawPrice = price], val |-> R(50), raw |-> R(50)]
    ELSE
      LET delta == price - g.prevRawPrice
          gain  == IF delta > 0 THEN R(delta) ELSE R(0)
          loss  == IF delta > 0 THEN R(0) ELSE R(0 - delta)
          seed  == REq(g.avgGain, R(0)) /\ REq(g.avgLoss, R(0))
          alpha == RMk(1, g.RsiLength)
          ag    == IF seed THEN gain
                   ELSE RAdd(RMul(RSub(R(1), alpha), g.avgGain), RMul(alpha, gain))
          al    == IF seed THEN loss
                   ELSE RAdd(RMul(RSub(R(1), alpha), g.avgLoss), RMul(alpha, loss))
          g1    == [g EXCEPT !.prevRawPrice = price, !.avgGain = ag, !.avgLoss = al]
      IN  IF REq(al, R(0)) /\ REq(ag, R(0))
          THEN [gm |-> g1, val |-> R(50), raw |-> R(50)]
          ELSE IF REq(al, R(0))
          THEN [gm |-> g1, val |-> R(100), raw |-> R(100)]
          ELSE LET rs  == RDiv(ag, al)
                   rsi == RSub(R(100), RDiv(R(100), RAdd(R(1), rs)))
               IN  [gm |-> g1, val |-> clamp(rsi, R(0), R(100)), raw |-> rsi]

\* computeRSI: the value returned (val), the value before clamping (raw) and
\* the GridManager it leaves
computeRSI(g, price) ==
    IF g.prevRawPrice = 0
    THEN [gm |-> [g EXCEPT !.prevRawPrice = price], val |-> R(50), raw |-> R(50)]
    ELSE
      LET delta == price - g.prevRawPrice
          gain  == IF delta > 0 THEN R(delta) ELSE R(0)
          loss  == IF delta > 0 THEN R(0) ELSE R(0 - delta)
          seed  == REq(g.avgGain, R(0)) /\ REq(g.avgLoss, R(0))
          alpha == RMk(1, g.RsiLength)
          ag    == IF seed THEN gain
                   ELSE RAdd(RMul(RSub(R(1), alpha), g.avgGain), RMul(alpha, gain))
          al    == IF seed THEN loss
                   ELSE RAdd(RMul(RSub(R(1), alpha), g.avgLoss), RMul(alpha, loss))
          g1    == [g EXCEPT !.prevRawPrice = price, !.avgGain = ag, !.avgLoss = al]
      IN  IF REq(al, R(0))
          THEN [gm |-> g1, val |-> R(100), raw |-> R(100)]
          ELSE LET rs  == RDiv(ag, al)
                   rsi == RSub(R(100), RDiv(R(100), RAdd(R(1), rs)))
               IN  [gm |-> g1, val |-> clamp(rsi, R(0), R(100)), raw |-> rsi]

\* one stage of the RSX cascade: fast filter, slow filter of the fast one,
\* combined as 1.5*fast - 0.5*slow
cascadeStage(fast, slow, input, f18, f20) ==
    LET nf == RAdd(RMul(f20, fast), RMul(f18, input))
        ns == RAdd(RMul(f18, nf), RMul(f20, slow))
    IN  [fast |-> nf, slow |-> ns,
         v |-> RSub(RMul(RMk(3, 2), nf), RMul(RMk(1, 2), ns))]

\* variant: no minimum of 5
warmupThresholdNoFloor(g) == g.RsiLength - 1

\* the minimum warm-up threshold max(RsiLength-1, 5)
warmupThreshold(g) == IF g.RsiLength - 1 < 5 THEN 5 ELSE g.RsiLength - 1

\* variant: the counter is not held at f88 + 1
nextF90_Unbounded(g) ==
    IF g.f90_ = 0 THEN 1
    ELSE g.f90_ + 1

\* the closure that advances f90_
nextF90_(g) ==
    IF g.f90_ = 0 THEN 1
    ELSE IF g.f88 <= g.f90_ THEN g.f88 + 1
    ELSE g.f90_ + 1

\* computeRSX: the value returned (val), the value before clamping (raw) and
\* the GridManager it leaves
computeRSX(g, price) ==
    IF g.f8 = 0 /\ g.f10 = 0
    THEN [gm |-> [g EXCEPT !.f8 = 100 * price, !.f10 = 100 * price,
                           !.f90_ = 1, !.f88 = warmupThreshold(g)],
          val |-> R(50), raw |-> R(50)]
    ELSE
      LET oldF8 == g.f8
          newF8 == 100 * price
          v8    == R(newF8 - oldF8)
          f18   == RMk(3, g.RsiLength + 2)
          f20   == RSub(R(1), f18)
          s1    == cascadeStage(g.f28, g.f30, v8, f18, f20)
          s2    == cascadeStage(g.f38, g.f40, s1.v, f18, f20)
          s3    == cascadeStage(g.f48, g.f50, s2.v, f18, f20)
          s4    == cascadeStage(g.f58, g.f60, RAbs(v8), f18, f20)
          s5    == cascadeStage(g.f68, g.f70, s4.v, f18, f20)
          s6    == cascadeStage(g.f78, g.f80, s5.v, f18, f20)
          v14   == s3.v
          v20   == s6.v
          n90_  == nextF90_(g)
          n88   == IF g.f88 = 0 THEN warmupThreshold(g) ELSE g.f88
          n0    == IF n88 >= n90_ /\ newF8 # oldF8 THEN 1 ELSE 0
          n90   == IF n88 = n90_ /\ n0 = 0 THEN 0 ELSE n90_
          rsx   == IF n88 < n90 /\ RGt(v20, R(0))
                   THEN RMul(RAdd(RDiv(v14, v20), R(1)), R(50))
                   ELSE R(50)
      IN  [gm |-> [g EXCEPT !.f8 = newF8,
                            !.f28 = s1.fast, !.f30 = s1.slow,
                            !.f38 = s2.fast, !.f40 = s2.slow,
                            !.f48 = s3.fast, !.f50 = s3.slow,
                            !.f58 = s4.fast, !.f60 = s4.slow,
                            !.f68 = s5.fast, !.f70 = s5.slow,
                            !.f78 = s6.fast, !.f80 = s6.slow,
                            !.f90_ = n90_, !.f88 = n88, !.f0 = n0, !.f90 = n90],
           val |-> clamp(rsx, R(0), R(100)), raw |-> rsx]

(* --------------------------- CrossingDetector -------------------------- *)
\* the loop of getBuyLineIndex from iteration x on, idx being the index so far
RECURSIVE buyLoop(_, _, _)
buyLoop(g, x, idx) ==
    IF x >= g.NumberOfGrids THEN idx
    ELSE
      LET lineVal == getGridValue(g, x)
          i1 == IF /\ RLt(g.lastRsiValue, lineVal)
                   /\ RGe(g.currentRsi, lineVal)
                   /\ RLe(g.lastRsiValue, g.signalLine)
                THEN x ELSE idx
          i2 == IF RGt(g.lastRsiValue, R(99)) /\ RLe(g.currentRsi, R(99))
                THEN g.NumberOfGrids - 1 ELSE i1
      IN  buyLoop(g, x + 1, i2)

getBuyLineIndex(g) == buyLoop(g, 0, 0)

\* the loop of getSellLineIndex from iteration x on
RECURSIVE sellLoop(_, _, _)
sellLoop(g, x, idx) ==
    IF x >= g.NumberOfGrids THEN idx
    ELSE
      LET lineVal == getGridValue(g, x)
          i1 == IF /\ RGt(g.lastRsiValue, lineVal)
                   /\ RLe(g.currentRsi, lineVal)
                   /\ RGe(g.lastRsiValue, g.signalLine)
                THEN x ELSE idx
          i2 == IF RLt(g.lastRsiValue, R(1)) /\ RGe(g.currentRsi, R(1))
                THEN 0 ELSE i1
      IN  sellLoop(g, x + 1, i2)

getSellLineIndex(g) == sellLoop(g, 0, 0)

(* ------------------------- SignalFilterPipeline ------------------------ *)
\* gi := 100.0 / float64(gm.NumberOfGrids-1)
gridInterval(g) == RMk(100, g.NumberOfGrids - 1)

\* variant: the Low branch is never taken (guard written >= 0)
applyAggressionFilterNoLow(g) ==
    LET topIdx == (g.NumberOfGrids - 1) - g.AggressionLevel
        botIdx == 1 + g.AggressionLevel
        topVal == getGridValue(g, topIdx)
        botVal == getGridValue(g, botIdx)
        clearBuy  == RGt(g.currentRsi, g.signalLine) /\ RGe(g.lastRsiValue, botVal)
        clearSell == RLt(g.currentRsi, g.signalLine) /\ RLe(g.lastRsiValue, topVal)
    IN  [g EXCEPT !.buy  = IF clearBuy THEN FALSE ELSE g.buy,
                  !.sell = IF clearSell THEN FALSE ELSE g.sell]

\* variant: the flags are assigned the negated conditions instead of cleared
applyAggressionFilterAssigning(g) ==
    LET gi == gridInterval(g) IN
    IF g.AggressionLevel > 0
    THEN LET topIdx == (g.NumberOfGrids - 1) - g.AggressionLevel
             botIdx == 1 + g.AggressionLevel
             topVal == getGridValue(g, topIdx)
             botVal == getGridValue(g, botIdx)
             clearBuy  == RGt(g.currentRsi, g.signalLine) /\ RGe(g.lastRsiValue, botVal)
             clearSell == RLt(g.currentRsi, g.signalLine) /\ RLe(g.lastRsiValue, topVal)
         IN  [g EXCEPT !.buy = ~clearBuy, !.sell = ~clearSell]
    ELSE LET clearBuy  == RGt(g.lastRsiValue, RSub(g.signalLine, gi))
             clearSell == RLt(g.lastRsiValue, RAdd(g.signalLine, gi))
         IN  [g EXCEPT !.buy = ~clearBuy, !.sell = ~clearSell]

applyAggressionFilter(g) ==
    LET gi == gridInterval(g) IN
    IF g.AggressionLevel > 0
    THEN LET topIdx == (g.NumberOfGrids - 1) - g.AggressionLevel
             botIdx == 1 + g.AggressionLevel
             topVal == getGridValue(g, topIdx)
             botVal == getGridValue(g, botIdx)
             clearBuy  == RGt(g.currentRsi, g.signalLine) /\ RGe(g.lastRsiValue, botVal)
             clearSell == RLt(g.currentRsi, g.signalLine) /\ RLe(g.lastRsiValue, topVal)
         IN  [g EXCEPT !.buy  = IF clearBuy THEN FALSE ELSE g.buy,
                       !.sell = IF clearSell THEN FALSE ELSE g.sell]
    ELSE LET clearBuy  == RGt(g.lastRsiValue, RSub(g.signalLine, gi))
             clearSell == RLt(g.lastRsiValue, RAdd(g.signalLine, gi))
         IN  [g EXCEPT !.buy  = IF clearBuy THEN FALSE ELSE g.buy,
                       !.sell = IF clearSell THEN FALSE ELSE g.sell]

\* variant: inside the zone only the sell flag is cleared
applyNoTradeZoneFilterSellOnly(g) ==
    LET lowerBound == RSub(R(50), R(g.NoTradeZonePips))
        upperBound == RAdd(R(50), R(g.NoTradeZonePips))
    IN  IF RGt(g.lastRsiValue, lowerBound) /\ RLt(g.lastRsiValue, upperBound)
        THEN [g EXCEPT !.sell = FALSE]
        ELSE g

applyNoTradeZoneFilter(g) ==
    LET lowerBound == RSub(R(50), R(g.NoTradeZonePips))
        upperBound == RAdd(R(50), R(g.NoTradeZonePips))
    IN  IF RGt(g.lastRsiValue, lowerBound) /\ RLt(g.lastRsiValue, upperBound)
        THEN [g EXCEPT !.buy = FALSE, !.sell = FALSE]
        ELSE g

\* variant: the two biases are swapped
applyDirectionFilterSwapped(g) ==
    IF RLt(g.currentRsi, R(100)) \/ RGt(g.currentRsi, R(1))
    THEN LET gi == gridInterval(g)
             clearBuy  == /\ g.MarketDirection = DirUp
                          /\ RGe(g.currentRsi, RSub(g.signalLine, RMul(R(2), gi)))
             clearSell == /\ g.MarketDirection = DirDown
                          /\ RLe(g.currentRsi, RAdd(g.signalLine, RMul(R(2), gi)))
         IN  [g EXCEPT !.buy  = IF clearBuy THEN FALSE ELSE g.buy,
                       !.sell = IF clearSell THEN FALSE ELSE g.sell]
    ELSE g

applyDirectionFilter(g) ==
    IF RLt(g.currentRsi, R(100)) \/ RGt(g.currentRsi, R(1))
    THEN LET gi == gridInterval(g)
             clearBuy  == /\ g.MarketDirection = DirDown
                          /\ RGe(g.currentRsi, RSub(g.signalLine, RMul(R(2), gi)))
             clearSell == /\ g.MarketDirection = DirUp
                          /\ RLe(g.currentRsi, RAdd(g.signalLine, RMul(R(2), gi)))
         IN  [g EXCEPT !.buy  = IF clearBuy THEN FALSE ELSE g.buy,
                       !.sell = IF clearSell THEN FALSE ELSE g.sell]
    ELSE g

(* ------------------------- SignalDecisionEngine ------------------------ *)
\* variant: the default case forgets the last signal index
finalSignalResetting(g, buyIdx, sellIdx) ==
    IF g.buy
    THEN [gm |-> [g EXCEPT !.lastSignal = 1, !.lastSignalIndex = buyIdx],
          out |-> BuySignal]
    ELSE IF g.sell
    THEN [gm |-> [g EXCEPT !.lastSignal = 0 - 1, !.lastSignalIndex = sellIdx],
          out |-> SellSignal]
    ELSE [gm |-> [g EXCEPT !.lastSignalIndex = 0], out |-> DoNothingSignal]

\* variant: the switch has no default case
finalSignalNoDefault(g, buyIdx, sellIdx) ==
    IF g.buy
    THEN [gm |-> [g EXCEPT !.lastSignal = 1, !.lastSignalIndex = buyIdx],
          out |-> BuySignal]
    ELSE IF g.sell
    THEN [gm |-> [g EXCEPT !.lastSignal = 0 - 1, !.lastSignalIndex = sellIdx],
          out |-> SellSignal]
    ELSE [gm |-> g, out |-> NoSignal]

\* the switch of step 7: the signal and the carry-over state it sets
finalSignal(g, buyIdx, sellIdx) ==
    IF g.buy
    THEN [gm |-> [g EXCEPT !.lastSignal = 1, !.lastSignalIndex = buyIdx],
          out |-> BuySignal]
    ELSE IF g.sell
    THEN [gm |-> [g EXCEPT !.lastSignal = 0 - 1, !.lastSignalIndex = sellIdx],
          out |-> SellSignal]
    ELSE [gm |-> g, out |-> DoNothingSignal]

\* variant: the sentinel is a negative value
isWarmUpNegative(g) == RLt(g.lastRsiValue, R(0))

\* the warm-up sentinel test of Process
isWarmUp(g) == REq(g.lastRsiValue, R(0))

\* step 1 of Process: the indicator of the configured variant
computeIndicator(g, price) ==
    LET r == IF g.CurrentRsiType = RsiTypeRSX THEN computeRSX(g, price)
             ELSE computeRSI(g, price)
    IN  [r.gm EXCEPT !.currentRsi = r.val]

\* the value step 1 of Process computes before it is clamped
rawIndicator(g, price) ==
    IF g.CurrentRsiType = RsiTypeRSX THEN computeRSX(g, price).raw
    ELSE computeRSI(g, price).raw

\* the two flags of a GridManager, as the log lines of Process print them
flags(g) == <<g.buy, g.sell>>

\* the warm-up branch of Process (g0: the GridManager after step 1)
warmUpBar(g0) ==
    [gm |-> [g0 EXCEPT !.lastRsiValue = g0.currentRsi],
     out |-> DoNothingSignal, err |-> Nil, branch |-> "warmup",
     prev |-> g0.lastRsiValue, cur |-> g0.currentRsi,
     buyIdx |-> 0, sellIdx |-> 0,
     crossed |-> <<FALSE, FALSE>>, afterAggr |-> <<FALSE, FALSE>>,
     afterZone |-> <<FALSE, FALSE>>, afterDir |-> <<FALSE, FALSE>>]

\* variant: index 0 counts as a crossing
findLineIndexesFromZero(g0, buyIdx, sellIdx) ==
    [gm |-> [g0 EXCEPT !.buy = (buyIdx >= 0), !.sell = (sellIdx >= 0)],
     buyIdx |-> buyIdx, sellIdx |-> sellIdx,
     prev |-> g0.lastRsiValue, cur |-> g0.currentRsi,
     crossed |-> <<buyIdx >= 0, sellIdx >= 0>>]

\* steps 2 and 3 of Process: reset the flags and set them from the indexes
findLineIndexes(g0, buyIdx, sellIdx) ==
    [gm |-> [g0 EXCEPT !.buy = (buyIdx > 0), !.sell = (sellIdx > 0)],
     buyIdx |-> buyIdx, sellIdx |-> sellIdx,
     prev |-> g0.lastRsiValue, cur |-> g0.currentRsi,
     crossed |-> <<buyIdx > 0, sellIdx > 0>>]

\* step 4 of Process
aggressionStep(t) ==
    [gm |-> applyAggressionFilter(t.gm),
     buyIdx |-> t.buyIdx, sellIdx |-> t.sellIdx, prev |-> t.prev, cur |-> t.cur,
     crossed |-> t.crossed]

\* step 5 of Process
noTradeZoneStep(t) ==
    [gm |-> applyNoTradeZoneFilter(t.gm),
     buyIdx |-> t.buyIdx, sellIdx |-> t.sellIdx, prev |-> t.prev, cur |-> t.cur,
     crossed |-> t.crossed, afterAggr |-> flags(t.gm)]

\* step 6 of Process
directionStep(t) ==
    [gm |-> applyDirectionFilter(t.gm),
     buyIdx |-> t.buyIdx, sellIdx |-> t.sellIdx, prev |-> t.prev, cur |-> t.cur,
     crossed |-> t.crossed, afterAggr |-> t.afterAggr, afterZone |-> flags(t.gm)]

\* step 7 of Process
decisionStep(t) ==
    [fs |-> finalSignal(t.gm, t.buyIdx, t.sellIdx),
     buyIdx |-> t.buyIdx, sellIdx |-> t.sellIdx, prev |-> t.prev, cur |-> t.cur,
     crossed |-> t.crossed, afterAggr |-> t.afterAggr, afterZone |-> t.afterZone,
     afterDir |-> flags(t.gm)]

\* the signal line assignment, step 8 and the return of Process
memoryStep(t) ==
    [gm |-> [t.fs.gm EXCEPT
                !.signalLine = getGridValue(t.fs.gm, t.fs.gm.lastSignalIndex),
                !.lastRsiValue = t.fs.gm.currentRsi],
     out |-> t.fs.out, err |-> Nil, branch |-> "steady",
     prev |-> t.prev, cur |-> t.cur,
     buyIdx |-> t.buyIdx, sellIdx |-> t.sellIdx,
     crossed |-> t.crossed, afterAggr |-> t.afterAggr,
     afterZone |-> t.afterZone, afterDir |-> t.afterDir]

\* the steady branch of Process (g0: the GridManager after step 1)
steadyBar(g0) ==
    memoryStep(decisionStep(directionStep(noTradeZoneStep(aggressionStep(
        findLineIndexes(g0, getBuyLineIndex(g0), getSellLineIndex(g0)))))))

\* Process after step 1
processBar(g0) == IF isWarmUp(g0) THEN warmUpBar(g0) ELSE steadyBar(g0)

\* Process: the GridManager it leaves, the signal and error it returns, and
\* the values its log lines report
Process(g, price) == processBar(computeIndicator(g, price))

(* ------------------------------ MonitorTx ------------------------------ *)
\* the commitment stages in the order MonitorTx follows them
stages == <<"processed", "confirmed", "finalized">>

\* what one WaitForCommitmentStatus call can answer: an error, a response
\* carrying an instruction error, or a response without one
Outcomes == {"err", "instrErr", "ok"}

\* a MonitorTx goroutine at its first statement; queries is the list of the
\* WaitForCommitmentStatus calls it has made, log the message it has logged
NewMonitor(txId, maxRetries) ==
    [txId |-> txId, max |-> maxRetries, pc |-> "loop", count |-> 0,
     stageIndex |-> 0, queries |-> <<>>, log |-> ""]

\* variant: the loop runs while count <= MaxRetriesTxMonitor
loopContinuesInclusive(m) == m.count <= m.max

\* the loop condition count < j.cfg.MaxRetriesTxMonitor
loopContinues(m) == m.count < m.max

\* variant: an instruction error does not hold the stage back
monitorAttemptIgnoringInstrErr(m, outcome) ==
    LET q  == [stageIndex |-> m.stageIndex, stage |-> stages[m.stageIndex + 1],
               outcome |-> outcome]
        m1 == [m EXCEPT !.count = @ + 1, !.queries = Append(@, q)]
    IN  IF outcome = "err" THEN m1
        ELSE [m1 EXCEPT !.stageIndex = @ + 1,
                        !.pc = IF m.stageIndex + 1 >= Len(stages)
                               THEN "after" ELSE "loop"]

\* one iteration of the loop of MonitorTx, the query answering outcome
monitorAttempt(m, outcome) ==
    LET q  == [stageIndex |-> m.stageIndex, stage |-> stages[m.stageIndex + 1],
               outcome |-> outcome]
        m1 == [m EXCEPT !.count = @ + 1, !.queries = Append(@, q)]
    IN  IF outcome # "ok" THEN m1
        ELSE [m1 EXCEPT !.stageIndex = @ + 1,
                        !.pc = IF m.stageIndex + 1 >= Len(stages)
                               THEN "after" ELSE "loop"]

\* the statements of MonitorTx after its loop
monitorReport(m) ==
    [m EXCEPT !.pc = "done",
              !.log = IF m.count >= m.max
                      THEN "could not get commitment status"
                      ELSE "commitment status is finalized"]

(* ------------------------------ main loop ------------------------------ *)
\* no swap was requested
NoSwap == [from |-> "", to |-> "", amount |-> 0]

\* variant: a Sell signal swaps in the direction of a Buy
swapRequestOneWay(signal, cfg) ==
    IF signal = BuySignal
    THEN [from |-> cfg.BaseCurrency, to |-> cfg.QuoteCurrency,
          amount |-> cfg.BuyOrderSize]
    ELSE IF signal = SellSignal
    THEN [from |-> cfg.BaseCurrency, to |-> cfg.QuoteCurrency,
          amount |-> cfg.SellOrderSize]
    ELSE NoSwap

\* the arguments of the SubmitSwap call the switch of main makes for a signal
swapRequest(signal, cfg) ==
    IF signal = BuySignal
    THEN [from |-> cfg.BaseCurrency, to |-> cfg.QuoteCurrency,
          amount |-> cfg.BuyOrderSize]
    ELSE IF signal = SellSignal
    THEN [from |-> cfg.QuoteCurrency, to |-> cfg.BaseCurrency,
          amount |-> cfg.SellOrderSize]
    ELSE NoSwap

\* the local variables of main at the top of an iteration of its loop;
\* priceErr, processed, swap, swapOk and started describe the iteration
\* under way
topOfLoop(m) ==
    [m EXCEPT !.pc = "sleep", !.price = 0, !.signal = NoSignal, !.txId = "",
              !.priceErr = FALSE, !.processed = 0, !.swap = NoSwap,
              !.swapOk = FALSE, !.started = 0]

(* --------------------------- specifications ---------------------------- *)
\* configurations explored
\* indicator variant and period: classic RSI with a period that fixes the value
\* to 0 / 100 and one that smooths; RSX with the period whose cascade passes
\* the price delta through
Indicators == {<<RsiTypeClassic, 1>>, <<RsiTypeClassic, 4>>, <<RsiTypeRSX, 1>>}
GridCounts == {1, 2, 10}
Directions == {DirUp, DirNeutral, DirDown}
NoTradeZones == {0, 15}
AggressionLevels == {0, 1, 2}

NoObs ==
    [out |-> NoSignal, err |-> Nil, branch |-> "none", price |-> 0,
     prev |-> R(0), cur |-> R(0), sigLineBefore |-> R(50), idxBefore |-> 0,
     buyIdx |-> 0, sellIdx |-> 0,
     crossed |-> <<FALSE, FALSE>>, afterAggr |-> <<FALSE, FALSE>>,
     afterZone |-> <<FALSE, FALSE>>, afterDir |-> <<FALSE, FALSE>>]

\* no arguments recorded: the GridManager is given by its parsed settings
NoArgs == <<>>

\* the driving loop is not running
NoMain == [pc |-> "none"]

Init ==
    /\ \E i \in Indicators, n \in GridCounts, d \in Directions,
          z \in NoTradeZones, a \in AggressionLevels :
          gm = NewGridManager(i[2], n, d, z, a, i[1])
    /\ phase = "ready"
    /\ calls = 0
    /\ obs = NoObs
    /\ args = NoArgs
    /\ main = NoMain
    /\ monitors = <<>>

\* one iteration of the driving loop that reaches gm.Process(price)
ProcessSample ==
    /\ phase = "ready"
    /\ calls < MaxSamples
    /\ \E price \in 1..MaxPrice :
          \E r \in {Process(gm, price)} :
          /\ gm' = r.gm
          /\ obs' = [out |-> r.out, err |-> r.err, branch |-> r.branch,
                     price |-> price, prev |-> r.prev, cur |-> r.cur,
                     sigLineBefore |-> gm.signalLine,
                     idxBefore |-> gm.lastSignalIndex,
                     buyIdx |-> r.buyIdx, sellIdx |-> r.sellIdx,
                     crossed |-> r.crossed, afterAggr |-> r.afterAggr,
                     afterZone |-> r.afterZone, afterDir |-> r.afterDir]
    /\ calls' = calls + 1
    /\ phase' = phase
    /\ UNCHANGED <<args, main, monitors>>

Next == ProcessSample

Spec == Init /\ [][Next]_vars

\* aggression Low on the coarsest ladder and on a fine one
FineGridCounts == {1, 30}

InitLow ==
    /\ \E i \in Indicators, n \in FineGridCounts, d \in Directions,
          z \in NoTradeZones :
          gm = NewGridManager(i[2], n, d, z, 0, i[1])
    /\ phase = "ready"
    /\ calls = 0
    /\ obs = NoObs
    /\ args = NoArgs
    /\ main = NoMain
    /\ monitors = <<>>

NextLow == ProcessSample

SpecLow == InitLow /\ [][NextLow]_vars

\* construction of the ladder alone, for every grid count up to the bound
InitLadder ==
    /\ \E n \in 1..MaxLadderGrids :
          gm = AllocGridManager(1, n, DirNeutral, 0, 0, RsiTypeClassic)
    /\ phase = "alloc"
    /\ calls = 0
    /\ obs = NoObs
    /\ args = NoArgs
    /\ main = NoMain
    /\ monitors = <<>>

BuildLadder ==
    /\ phase = "alloc"
    /\ gm' = initGridLines(gm)
    /\ phase' = "ready"
    /\ UNCHANGED <<calls, obs, args, main, monitors>>

NextLadder == BuildLadder

SpecLadder == InitLadder /\ [][NextLadder]_vars

\* construction from textual inputs, valid or not, and the first sample
RawRsiLengths == {0, 1}
RawGridCounts == {0 - 1, 0, 1}
RawDirections == {"up", "down", "neutral", "sideways"}
RawNoTradeZones == {"n/a", "35-65", "25-75"}
RawAggressions == {"low", "med", "high", "max"}
RawRsiTypes == {"rsi", "rsx", "ema"}

\* no GridManager exists
NilGridManager == [NumberOfGrids |-> 0]

InitConfig ==
    /\ \E p \in RawRsiLengths, n \in RawGridCounts, d \in RawDirections,
          z \in RawNoTradeZones, a \in RawAggressions, t \in RawRsiTypes :
          args = [rsiLength |-> p, numberOfGrids |-> n, direction |-> d,
                  ntZone |-> z, aggLevel |-> a, rsiType |-> t]
    /\ gm = NilGridManager
    /\ phase = "start"
    /\ calls = 0
    /\ obs = NoObs
    /\ main = NoMain
    /\ monitors = <<>>

\* gm := gridmanager.NewGridManager(...)
Construct ==
    /\ phase = "start"
    /\ IF initGridLinesPanics(args.numberOfGrids)
       THEN gm' = gm /\ phase' = "panicked"
       ELSE gm' = NewGridManagerOf(args) /\ phase' = "ready"
    /\ UNCHANGED <<calls, obs, args, main, monitors>>

\* what a Process call on g with result r leaves in obs
Observe(g, price, r) ==
    [out |-> r.out, err |-> r.err, branch |-> r.branch,
     price |-> price, prev |-> r.prev, cur |-> r.cur,
     sigLineBefore |-> g.signalLine, idxBefore |-> g.lastSignalIndex,
     buyIdx |-> r.buyIdx, sellIdx |-> r.sellIdx,
     crossed |-> r.crossed, afterAggr |-> r.afterAggr,
     afterZone |-> r.afterZone, afterDir |-> r.afterDir]

\* the first gm.Process(price) of the driving loop
ProcessFirstSample ==
    /\ phase = "ready"
    /\ calls = 0
    /\ \E price \in 1..MaxPrice :
          \E r \in {Process(gm, price)} :
          /\ gm' = r.gm
          /\ obs' = Observe(gm, price, r)
    /\ calls' = 1
    /\ UNCHANGED <<phase, args, main, monitors>>

NextConfig == Construct \/ ProcessFirstSample

SpecConfig == InitConfig /\ [][NextConfig]_vars

\* the indicators alone: long sample sequences under the filter settings of
\* main, for periods at which smoothing and the RSX cascade are at work
MaxIndicatorSamples == 9
IndicatorPrices == {1, 2}
SmoothedIndicators == {<<"rsi", 3>>, <<"rsx", 4>>, <<"rsx", 7>>}

InitIndicator ==
    /\ \E i \in SmoothedIndicators :
          args = [rsiLength |-> i[2], numberOfGrids |-> 10,
                  direction |-> "neutral", ntZone |-> "35-65",
                  aggLevel |-> "low", rsiType |-> i[1]]
    /\ gm = NewGridManagerOf(args)
    /\ phase = "ready"
    /\ calls = 0
    /\ obs = NoObs @@ [raw |-> R(0)]
    /\ main = NoMain
    /\ monitors = <<>>

\* one iteration of the driving loop that reaches gm.Process(price)
ProcessIndicatorSample ==
    /\ phase = "ready"
    /\ calls < MaxIndicatorSamples
    /\ \E price \in IndicatorPrices :
          \E r \in {Process(gm, price)} :
          /\ gm' = r.gm
          /\ obs' = Observe(gm, price, r) @@ [raw |-> rawIndicator(gm, price)]
    /\ calls' = calls + 1
    /\ UNCHANGED <<phase, args, main, monitors>>

NextIndicator == ProcessIndicatorSample

SpecIndicator == InitIndicator /\ [][NextIndicator]_vars

\* variant: the goroutine also resets the signal line of the GridManager
MonitorQueryTouching(i) ==
    /\ monitors[i].pc = "loop"
    /\ loopContinues(monitors[i])
    /\ \E o \in Outcomes :
          monitors' = [monitors EXCEPT ![i] = monitorAttempt(@, o)]
    /\ gm' = [gm EXCEPT !.signalLine = R(50)]
    /\ UNCHANGED <<phase, calls, obs, args, main>>

\* goroutine i makes one pass through the loop of MonitorTx
MonitorQuery(i) ==
    /\ monitors[i].pc = "loop"
    /\ loopContinues(monitors[i])
    /\ \E o \in Outcomes :
          monitors' = [monitors EXCEPT ![i] = monitorAttempt(@, o)]
    /\ UNCHANGED <<gm, phase, calls, obs, args, main>>

\* goroutine i leaves the loop of MonitorTx, logs and returns
MonitorReport(i) ==
    /\ \/ monitors[i].pc = "after"
       \/ monitors[i].pc = "loop" /\ ~loopContinues(monitors[i])
    /\ monitors' = [monitors EXCEPT ![i] = monitorReport(@)]
    /\ UNCHANGED <<gm, phase, calls, obs, args, main>>

\* one MonitorTx call alone, for every retry limit up to the bound
MaxRetriesBound == 5

InitMonitor ==
    /\ \E n \in 0..MaxRetriesBound : monitors = <<NewMonitor("tx1", n)>>
    /\ gm = NilGridManager
    /\ phase = "monitoring"
    /\ calls = 0
    /\ obs = NoObs
    /\ args = NoArgs
    /\ main = NoMain

NextMonitor ==
    \/ \E i \in DOMAIN monitors : MonitorQuery(i)
    \/ \E i \in DOMAIN monitors : MonitorReport(i)

SpecMonitor == InitMonitor /\ [][NextMonitor]_vars

\* every enabled step of MonitorTx is eventually taken: time.Sleep returns and
\* WaitForCommitmentStatus answers (its context carries a timeout)
FairSpecMonitor == SpecMonitor /\ WF_vars(NextMonitor)

\* the driving loop of main together with the MonitorTx goroutines it starts
MaxLoopSamples == 10
LoopPrices == {1, 2}
LoopConfig ==
    [BaseCurrency |-> "base", QuoteCurrency |-> "quote",
     BuyOrderSize |-> 1, SellOrderSize |-> 2, MaxRetriesTxMonitor |-> 3]

InitLoop ==
    /\ args = [rsiLength |-> 7, numberOfGrids |-> 10, direction |-> "neutral",
               ntZone |-> "35-65", aggLevel |-> "low", rsiType |-> "rsx"]
    /\ gm = NewGridManagerOf(args)
    /\ phase = "ready"
    /\ calls = 0
    /\ obs = NoObs
    /\ main = [pc |-> "sleep", cfg |-> LoopConfig, price |-> 0,
               signal |-> NoSignal, txId |-> "", priceErr |-> FALSE,
               processed |-> 0, swap |-> NoSwap, swapOk |-> FALSE, started |-> 0, sent |-> 0]
    /\ monitors = <<>>

\* variant: an error of j.GetPrice is logged and the iteration goes on with
\* the zero price
GetPriceNoContinue ==
    /\ main.pc = "sleep"
    /\ calls < MaxLoopSamples
    /\ \/ \E price \in LoopPrices :
             main' = [topOfLoop(main) EXCEPT !.pc = "process", !.price = price]
       \/ main' = [topOfLoop(main) EXCEPT !.priceErr = TRUE, !.pc = "process"]
    /\ UNCHANGED <<gm, phase, calls, obs, args, monitors>>

\* time.Sleep and j.GetPrice: the price, or an error and continue
GetPrice ==
    /\ main.pc = "sleep"
    /\ calls < MaxLoopSamples
    /\ \/ \E price \in LoopPrices :
             main' = [topOfLoop(main) EXCEPT !.pc = "process", !.price = price]
       \/ main' = [topOfLoop(main) EXCEPT !.priceErr = TRUE]
    /\ UNCHANGED <<gm, phase, calls, obs, args, monitors>>

\* gm.Process(price): the signal, or an error and continue
CallProcess ==
    /\ main.pc = "process"
    /\ \E r \in {Process(gm, main.price)} :
          /\ gm' = r.gm
          /\ obs' = Observe(gm, main.price, r)
          /\ main' = [main EXCEPT !.signal = r.out,
                                  !.processed = @ + 1,
                                  !.pc = IF r.err # Nil THEN "sleep" ELSE "switch"]
    /\ calls' = calls + 1
    /\ UNCHANGED <<phase, args, monitors>>

\* the Buy and Sell cases of the switch: j.SubmitSwap returns a transaction
\* id, or an error and continue
SubmitSwap ==
    /\ main.pc = "switch"
    /\ main.signal \in {BuySignal, SellSignal}
    /\ \E ok \in BOOLEAN :
          main' = [main EXCEPT !.swap = swapRequest(main.signal, main.cfg),
                               !.swapOk = ok,
                               !.sent = IF ok THEN @ + 1 ELSE @,
                               !.txId = IF ok THEN <<"tx", main.sent + 1>> ELSE "",
                               !.pc = IF ok THEN "go" ELSE "sleep"]
    /\ UNCHANGED <<gm, phase, calls, obs, args, monitors>>

\* the default case of the switch: no action taken this interval
NoAction ==
    /\ main.pc = "switch"
    /\ main.signal \notin {BuySignal, SellSignal}
    /\ main' = [main EXCEPT !.pc = "sleep"]
    /\ UNCHANGED <<gm, phase, calls, obs, args, monitors>>

\* go j.MonitorTx(ctx, txId, log)
StartMonitor ==
    /\ main.pc = "go"
    /\ monitors' = Append(monitors,
                          NewMonitor(main.txId, main.cfg.MaxRetriesTxMonitor))
    /\ main' = [main EXCEPT !.started = @ + 1, !.pc = "sleep"]
    /\ UNCHANGED <<gm, phase, calls, obs, args>>

NextLoop ==
    \/ GetPrice
    \/ CallProcess
    \/ SubmitSwap
    \/ NoAction
    \/ StartMonitor
    \/ \E i \in DOMAIN monitors : MonitorQuery(i)
    \/ \E i \in DOMAIN monitors : MonitorReport(i)

SpecLoop == InitLoop /\ [][NextLoop]_vars

(* ------------------------------ properties ----------------------------- *)
Signals == {BuySignal, SellSignal, DoNothingSignal}

\* the band edge the direction filter compares the oscillator with
BuyBand == RSub(obs.sigLineBefore, RMul(R(2), gridInterval(gm)))
SellBand == RAdd(obs.sigLineBefore, RMul(R(2), gridInterval(gm)))

\* the previous oscillator value of the last call lies strictly inside the
\* no-trade zone
PrevInZone ==
    /\ RGt(obs.prev, R(50 - gm.NoTradeZonePips))
    /\ RLt(obs.prev, R(50 + gm.NoTradeZonePips))

\* C1: the first Process call of a fresh GridManager returns DoNothing and a
\* nil error, for every configuration and price.
FirstCallDoesNothing ==
    calls = 1 => (obs.out = DoNothingSignal /\ obs.err = Nil)

FirstCallDoesNothingWitness ==
    /\ calls = 1
    /\ obs.out = DoNothingSignal
    /\ obs.price = MaxPrice
    /\ gm.CurrentRsiType = RsiTypeRSX

\* C2: after the first processed sample the warm-up branch of Process is
\* never taken again.
WarmUpOnlyFirstSample ==
    calls >= 2 => obs.branch # "warmup"

\* C3 (as stated): a call returning DoNothing leaves the signal line and the
\* last signal index as they were.
DoNothingKeepsSignalLine ==
    [][obs'.out = DoNothingSignal =>
          /\ gm'.signalLine = gm.signalLine
          /\ gm'.lastSignalIndex = gm.lastSignalIndex]_vars

\* C3 (amended): a call returning DoNothing leaves the last signal and its
\* index as they were; the signal line is unchanged too, except that the
\* first steady-state call replaces the initial 50 by the ladder value at
\* index 0, which is 1.
DoNothingKeepsIndex ==
    [][obs'.out = DoNothingSignal =>
          /\ gm'.lastSignalIndex = gm.lastSignalIndex
          /\ gm'.lastSignal = gm.lastSignal
          /\ \/ gm'.signalLine = gm.signalLine
             \/ /\ obs'.branch = "steady"
                /\ gm.signalLine = R(50)
                /\ gm.lastSignalIndex = 0
                /\ gm'.signalLine = R(1)]_vars

DoNothingKeepsIndexWitness ==
    /\ obs.out = DoNothingSignal
    /\ obs.branch = "steady"
    /\ obs.idxBefore > 0
    /\ gm.lastSignalIndex = obs.idxBefore
    /\ gm.signalLine = obs.sigLineBefore

\* C4 (as stated): with bias Down, Process never returns Buy.
DownNeverBuys ==
    gm.MarketDirection = DirDown => obs.out # BuySignal

\* C4 (amended): with bias Down, Process returns Buy only on a sample whose
\* current oscillator value is below signalLine - 2*gi (signalLine as it was
\* before the call).
DownBuysOnlyBelowBand ==
    (gm.MarketDirection = DirDown /\ obs.out = BuySignal)
        => RLt(obs.cur, BuyBand)

DownBuysOnlyBelowBandWitness ==
    /\ gm.MarketDirection = DirDown
    /\ obs.out = BuySignal
    /\ RLt(obs.cur, BuyBand)

\* C5 (as stated): with bias Up, Process never returns Sell.
UpNeverSells ==
    gm.MarketDirection = DirUp => obs.out # SellSignal

\* C5 (amended): with bias Up, Process returns Sell only on a sample whose
\* current oscillator value is above signalLine + 2*gi (signalLine as it was
\* before the call).
UpSellsOnlyAboveBand ==
    (gm.MarketDirection = DirUp /\ obs.out = SellSignal)
        => RGt(obs.cur, SellBand)

UpSellsOnlyAboveBandWitness ==
    /\ gm.MarketDirection = DirUp
    /\ obs.out = SellSignal
    /\ RGt(obs.cur, SellBand)

\* C6: a call whose previous oscillator value lies strictly inside
\* (50-ntz, 50+ntz) returns DoNothing.
NoTradeZoneSuppresses ==
    (obs.branch # "none" /\ PrevInZone) => obs.out = DoNothingSignal

\* a crossing that survived the aggression filter was cleared by the zone
NoTradeZoneSuppressesWitness ==
    /\ obs.branch = "steady"
    /\ PrevInZone
    /\ obs.afterAggr # <<FALSE, FALSE>>
    /\ obs.afterZone = <<FALSE, FALSE>>
    /\ obs.out = DoNothingSignal

\* C7: no filter turns a flag from false to true, and a sample whose flags
\* are both false entering the pipeline yields DoNothing.
FiltersOnlySuppress ==
    /\ \A i \in {1, 2} :
          /\ obs.afterAggr[i] => obs.crossed[i]
          /\ obs.afterZone[i] => obs.afterAggr[i]
          /\ obs.afterDir[i] => obs.afterZone[i]
    /\ (obs.branch = "steady" /\ obs.crossed = <<FALSE, FALSE>>)
          => (obs.afterDir = <<FALSE, FALSE>> /\ obs.out = DoNothingSignal)

\* both flags false entering the pipeline although the oscillator moved
FiltersOnlySuppressWitness ==
    /\ obs.branch = "steady"
    /\ obs.crossed = <<FALSE, FALSE>>
    /\ obs.prev # obs.cur
    /\ obs.afterDir = <<FALSE, FALSE>>

\* C8 (as stated): after the pipeline the buy and sell flags are never both
\* set.
NeverBothFlags ==
    ~(gm.buy /\ gm.sell)

\* C8 (amended): with aggression Low the two flags are never both set; with
\* Medium or High they are both set only on a sample that falls from above
\* 99 to at most 99 and at most the signal line, and that sample returns Buy.
BothFlagsOnlyOnFallFromTop ==
    /\ (gm.buy /\ gm.sell) => gm.AggressionLevel > 0
    /\ obs.afterDir = <<TRUE, TRUE>> =>
          /\ gm.AggressionLevel > 0
          /\ RGt(obs.prev, R(99))
          /\ RLe(obs.cur, R(99))
          /\ RLe(obs.cur, obs.sigLineBefore)
          /\ obs.out = BuySignal

BothFlagsOnlyOnFallFromTopWitness ==
    /\ obs.afterDir = <<TRUE, TRUE>>
    /\ gm.buy /\ gm.sell
    /\ obs.out = BuySignal

\* the ladder is non-decreasing from index 0 to the last index
NonDecreasing(lines) ==
    \A i \in 1..(Len(lines) - 1) : RLe(lines[i], lines[i + 1])

\* C9: for every grid count g >= 1 the ladder has length g+1, starts at 1,
\* ends at 99 and is non-decreasing.
LadderShape ==
    phase = "ready" =>
        /\ Len(gm.gridLines) = gm.NumberOfGrids
        /\ gm.gridLines[1] = R(1)
        /\ gm.gridLines[gm.NumberOfGrids] = R(99)
        /\ NonDecreasing(gm.gridLines)

\* C10: every Process call returns a nil error and one of the three signals.
ProcessTotal ==
    calls > 0 => (obs.err = Nil /\ obs.out \in Signals)

ProcessTotalWitness ==
    /\ calls > 1
    /\ obs.err = Nil
    /\ obs.out = SellSignal
    /\ gm.MarketDirection = DirNeutral

\* the configurations the specification of the engine admits
ValidArgs ==
    /\ args.rsiLength >= 1
    /\ args.numberOfGrids >= 1
    /\ args.direction \in {"up", "down", "neutral"}
    /\ args.ntZone \in {"n/a", "45-55", "40-60", "35-65", "30-70"}
    /\ args.aggLevel \in {"low", "med", "high"}
    /\ args.rsiType \in {"rsi", "rsx"}

\* C11: construction with an invalid configuration produces no GridManager
\* that accepts Process calls, and no sample is processed.
InvalidConfigRejected ==
    ~ValidArgs => (phase # "ready" /\ calls = 0)

\* v lies in the closed range [0, 100]
InRange(v) == RGe(v, R(0)) /\ RLe(v, R(100))

\* C13: after every Process call the current and the previous oscillator
\* value held by the GridManager lie in [0, 100].
OscillatorInRange ==
    calls > 0 => (InRange(gm.currentRsi) /\ InRange(gm.lastRsiValue))

\* the RSX cascade produced a value below 0 and the GridManager holds 0
OscillatorInRangeWitness ==
    /\ calls > 0
    /\ gm.CurrentRsiType = RsiTypeRSX
    /\ RLt(obs.raw, R(0))
    /\ gm.currentRsi = R(0)
    /\ gm.lastRsiValue = R(0)

\* max(period-1, 5) for the period of the GridManager
RsxThreshold == IF gm.RsiLength - 1 > 5 THEN gm.RsiLength - 1 ELSE 5

\* C14: with RSX, every call made while the warm-up progress counter f90_ has
\* not exceeded max(period-1, 5) returns exactly 50, and the counter does not
\* exceed it before call number max(period-1, 5) + 1.
RsxWarmUpReturns50 ==
    (gm.CurrentRsiType = RsiTypeRSX /\ calls >= 1) =>
        /\ gm.f90_ <= RsxThreshold => (obs.cur = R(50) /\ gm.currentRsi = R(50))
        /\ calls <= RsxThreshold => gm.f90_ <= RsxThreshold

\* the first value other than 50, on call number max(period-1, 5) + 1, for a
\* period whose threshold is period-1
RsxWarmUpReturns50Witness ==
    /\ gm.CurrentRsiType = RsiTypeRSX
    /\ gm.RsiLength = 7
    /\ calls = RsxThreshold + 1
    /\ gm.f90_ > RsxThreshold
    /\ obs.cur # R(50)

\* C15: classic RSI returns exactly 100 on every sample whose update leaves
\* the average loss exactly zero (every call but the first makes an update),
\* a flat sample that leaves both averages zero included.
ZeroLossYields100 ==
    (gm.CurrentRsiType = RsiTypeClassic /\ calls >= 2 /\ REq(gm.avgLoss, R(0)))
        => (obs.cur = R(100) /\ gm.currentRsi = R(100))

\* a flat sequence under a smoothing period: both averages are zero
ZeroLossYields100Witness ==
    /\ gm.CurrentRsiType = RsiTypeClassic
    /\ gm.RsiLength = 4
    /\ calls >= 2
    /\ REq(gm.avgGain, R(0))
    /\ REq(gm.avgLoss, R(0))
    /\ obs.cur = R(100)

\* C16: in an iteration of the driving loop a swap is submitted iff Process
\* returned Buy or Sell in it: Buy submits base->quote with the buy order
\* size, Sell quote->base with the sell order size, DoNothing (and an
\* iteration without a price) nothing; MonitorTx is started at most once per
\* iteration and only for a submission that succeeded.
SwapIffSignal ==
    /\ main.swap # NoSwap => main.signal \in {BuySignal, SellSignal}
    /\ (main.signal \in {BuySignal, SellSignal} /\ main.pc \in {"go", "sleep"})
          => main.swap # NoSwap
    /\ (main.swap # NoSwap /\ main.signal = BuySignal)
          => main.swap = [from |-> main.cfg.BaseCurrency,
                          to |-> main.cfg.QuoteCurrency,
                          amount |-> main.cfg.BuyOrderSize]
    /\ (main.swap # NoSwap /\ main.signal = SellSignal)
          => main.swap = [from |-> main.cfg.QuoteCurrency,
                          to |-> main.cfg.BaseCurrency,
                          amount |-> main.cfg.SellOrderSize]
    /\ main.started <= 1
    /\ main.started = 1 => (main.swap # NoSwap /\ main.swapOk)
    /\ main.pc = "go" => (main.swap # NoSwap /\ main.swapOk /\ main.started = 0)
    /\ Len(monitors) = main.sent - (IF main.pc = "go" THEN 1 ELSE 0)

\* an iteration that got Buy, submitted base->quote and started the monitor
SwapIffSignalWitness ==
    /\ main.pc = "sleep"
    /\ main.signal = BuySignal
    /\ main.swap.from = "base"
    /\ main.swapOk
    /\ main.started = 1
    /\ Len(monitors) = 2

\* C17: Process calls do not overlap and MonitorTx goroutines leave the
\* GridManager alone: the GridManager state, the call count and the record of
\* the last call change only in the step of the driving loop that makes one
\* whole Process call, and a step of a MonitorTx goroutine changes nothing but
\* that goroutine.
ProcessCallsSerial ==
    [][/\ (gm' # gm \/ calls' # calls \/ obs' # obs)
             => /\ main.pc = "process"
                /\ main'.pc \in {"switch", "sleep"}
                /\ calls' = calls + 1
                /\ monitors' = monitors
       /\ (monitors' # monitors /\ Len(monitors') = Len(monitors))
             => /\ gm' = gm /\ obs' = obs /\ calls' = calls /\ main' = main
                /\ \E i \in DOMAIN monitors :
                      \A j \in DOMAIN monitors \ {i} : monitors'[j] = monitors[j]]_vars

\* Process has just returned while a MonitorTx goroutine is inside its loop
ProcessCallsSerialWitness ==
    /\ main.pc = "switch"
    /\ Len(monitors) >= 1
    /\ monitors[1].pc = "loop"
    /\ monitors[1].count > 0
    /\ obs.branch = "steady"

\* the queries among the first n of goroutine record m that succeeded with no
\* instruction error
Succeeded(m, n) == {j \in 1..n : m.queries[j].outcome = "ok"}

\* C18: MonitorTx terminates, and it never makes more than
\* MaxRetriesTxMonitor commitment-status queries, whatever the queries answer.
MonitorTerminatesBounded ==
    /\ <>(\A i \in DOMAIN monitors : monitors[i].pc = "done")
    /\ [](\A i \in DOMAIN monitors :
             /\ Len(monitors[i].queries) <= monitors[i].max
             /\ monitors[i].count = Len(monitors[i].queries))

\* a MonitorTx that returned after using every permitted query, having met
\* an error, an instruction error and a success
MonitorTerminatesBoundedWitness ==
    \E i \in DOMAIN monitors :
        /\ monitors[i].pc = "done"
        /\ monitors[i].max = MaxRetriesBound
        /\ Len(monitors[i].queries) = monitors[i].max
        /\ {monitors[i].queries[k].outcome : k \in 1..monitors[i].max} = Outcomes

\* C19: MonitorTx logs the 'could not get commitment status' error only when
\* the three stages were not all passed, and logs the 'finalized' message
\* whenever all three queries succeeded within MaxRetriesTxMonitor attempts,
\* the last permitted attempt included.
ErrorOnlyWhenUnconfirmed ==
    \A i \in DOMAIN monitors :
        monitors[i].pc = "done" =>
            /\ monitors[i].log = "could not get commitment status"
                  => monitors[i].stageIndex < Len(stages)
            /\ (monitors[i].stageIndex = Len(stages)
                   /\ Len(monitors[i].queries) <= monitors[i].max)
                  => monitors[i].log = "commitment status is finalized"

\* C20: MonitorTx queries the stages in the order processed, confirmed,
\* finalized: the stage of each query is the one after the stages that
\* succeeded so far (so a stage is queried only after every earlier one
\* succeeded and the index never decreases), the index used is within 0..2,
\* and 'finalized' is logged only if all three stages succeeded.
StagesInOrder ==
    \A i \in DOMAIN monitors :
        /\ \A k \in 1..Len(monitors[i].queries) :
              /\ monitors[i].queries[k].stageIndex
                    = Cardinality(Succeeded(monitors[i], k - 1))
              /\ monitors[i].queries[k].stageIndex \in 0..2
              /\ monitors[i].queries[k].stage
                    = <<"processed", "confirmed", "finalized">>
                          [monitors[i].queries[k].stageIndex + 1]
        /\ monitors[i].log = "commitment status is finalized"
              => {monitors[i].queries[k].stage :
                      k \in Succeeded(monitors[i], Len(monitors[i].queries))}
                    = {"processed", "confirmed", "finalized"}

\* 'finalized' logged after a stage had to be asked again
StagesInOrderWitness ==
    \E i \in DOMAIN monitors :
        /\ monitors[i].pc = "done"
        /\ monitors[i].log = "commitment status is finalized"
        /\ \E k \in 1..Len(monitors[i].queries) :
              monitors[i].queries[k].outcome = "instrErr"

\* C21: a candidate index 0 never produces a signal: whenever Process returns
\* Buy or Sell, the index of that side is stored as last signal index and is
\* within 1..grid count, the signal line after the call is the ladder value
\* at that index, and last signal is +1 for Buy and -1 for Sell.
SignalIndexPositive ==
    /\ obs.out = BuySignal =>
          /\ obs.buyIdx >= 1
          /\ gm.lastSignalIndex = obs.buyIdx
          /\ gm.lastSignal = 1
    /\ obs.out = SellSignal =>
          /\ obs.sellIdx >= 1
          /\ gm.lastSignalIndex = obs.sellIdx
          /\ gm.lastSignal = 0 - 1
    /\ obs.out \in {BuySignal, SellSignal} =>
          /\ gm.lastSignalIndex \in 1..(gm.NumberOfGrids - 1)
          /\ gm.signalLine = gm.gridLines[gm.lastSignalIndex + 1]

\* a Buy at a ladder index above 1 that replaces an earlier Sell
SignalIndexPositiveWitness ==
    /\ obs.out = BuySignal
    /\ obs.idxBefore >= 1
    /\ gm.lastSignalIndex >= 2
    /\ gm.lastSignalIndex # obs.idxBefore
    /\ gm.signalLine = gm.gridLines[gm.lastSignalIndex + 1]

\* C22: on a sample whose current oscillator value is exactly 0 or exactly
\* 100 the direction filter clears neither flag, whatever the bias.
DirectionSkippedAtExtremes ==
    (obs.branch = "steady" /\ (obs.cur = R(0) \/ obs.cur = R(100)))
        => obs.afterDir = obs.afterZone

\* C23: with RSX the warm-up progress counter f90_ is 1 after the first call,
\* grows by exactly 1 on each later call until it is threshold + 1, and stays
\* there (after n calls it is the smaller of n and threshold + 1); the
\* threshold f88 is max(period-1, 5) from the first call on.
RsxCounterProgress ==
    (gm.CurrentRsiType = RsiTypeRSX /\ calls >= 1) =>
        /\ gm.f88 = RsxThreshold
        /\ gm.f90_ = (IF calls <= RsxThreshold THEN calls ELSE RsxThreshold + 1)

\* two calls after the counter reached threshold + 1, for a period whose
\* threshold is period - 1
RsxCounterProgressWitness ==
    /\ gm.CurrentRsiType = RsiTypeRSX
    /\ gm.RsiLength = 7
    /\ calls = RsxThreshold + 3
    /\ gm.f90_ = RsxThreshold + 1

\* C24: in every state reached by Process calls on an instance with grid
\* count >= 1, last signal index is within 0..grid count, last signal is 0
\* exactly when last signal index is 0, and the signal line is the initial 50
\* or the ladder value at last signal index.
CarryOverWellFormed ==
    /\ gm.lastSignalIndex \in 0..(gm.NumberOfGrids - 1)
    /\ gm.lastSignal \in {0 - 1, 0, 1}
    /\ gm.lastSignal = 0 <=> gm.lastSignalIndex = 0
    /\ \/ gm.signalLine = R(50)
       \/ gm.signalLine = gm.gridLines[gm.lastSignalIndex + 1]

\* a Sell at the top of a ladder of ten grids, still held two calls later
CarryOverWellFormedWitness ==
    /\ gm.NumberOfGrids = 11
    /\ gm.lastSignal = 0 - 1
    /\ gm.lastSignalIndex = gm.NumberOfGrids - 1
    /\ gm.signalLine = R(99)
    /\ obs.out = DoNothingSignal
    /\ obs.idxBefore = gm.lastSignalIndex

\* C25: with aggression Low and a grid count of at most 100, Process returns
\* Buy only on an instance that holds an earlier signal (last signal index
\* not 0), and the first signal an instance holds is a Sell: no Buy comes
\* before the first Sell.
FirstSignalIsSell ==
    gm.AggressionLevel = 0 =>
        /\ obs.out = BuySignal => obs.idxBefore >= 1
        /\ (obs.out \in {BuySignal, SellSignal} /\ obs.idxBefore = 0)
              => (obs.out = SellSignal /\ gm.lastSignal = 0 - 1)

\* a Buy on the ladder of 30 grids, after the Sell that came first
FirstSignalIsSellWitness ==
    /\ gm.AggressionLevel = 0
    /\ gm.NumberOfGrids = 31
    /\ obs.out = BuySignal
    /\ obs.idxBefore >= 1

\* C26: an iteration of the driving loop whose price retrieval fails calls
\* Process not at all and submits no swap, and leaves the GridManager as it
\* was; an iteration whose price retrieval succeeds calls Process exactly
\* once.
FailedPriceSkipsProcess ==
    [][/\ main'.priceErr =>
             /\ main.pc = "sleep" /\ main'.pc = "sleep"
             /\ gm' = gm /\ calls' = calls /\ obs' = obs
             /\ main'.processed = 0
             /\ main'.swap = NoSwap /\ main'.started = 0
       /\ main'.processed <= 1
       /\ main'.processed # main.processed =>
             \/ main'.processed = 0 /\ main.pc = "sleep"
             \/ main'.processed = 1 /\ main.pc = "process" /\ calls' = calls + 1
       /\ calls' # calls => main'.processed = main.processed + 1
       /\ main'.pc = "process" => (main'.processed = 0 /\ ~main'.priceErr)
       /\ (~main'.priceErr /\ main'.price # 0 /\ main'.pc # "process")
             => main'.processed = 1]_vars

\* the iteration after a Sell failed to get a price
FailedPriceSkipsProcessWitness ==
    /\ main.pc = "sleep"
    /\ main.priceErr
    /\ main.processed = 0
    /\ obs.out = SellSignal
    /\ Len(monitors) >= 1

====
